---- MODULE Spec2Model ----
(***************************************************************************)
(* repo2txt (src/src/repo2txt/repo2txt.py): the filter should_ignore, the  *)
(* gitignore pattern loader, the two traversals write_tree and             *)
(* write_file_contents_in_order, and main, as a state machine.             *)
(*                                                                         *)
(* A string is a sequence of tokens.  A token is one character ("a", ".",  *)
(* "/", "\n", " "), except that a fixed literal of the program that holds  *)
(* no "/" and no newline and neither starts nor ends with a blank is kept  *)
(* as one token ("[File Begins]").  File and directory names are written   *)
(* character by character, so prefix tests, splitting at "/", extension    *)
(* extraction and sorting act on them as Python's str operations do.       *)
(*                                                                         *)
(* The file system holds directories and regular files only (no symbolic   *)
(* links, no special files): os.path.abspath then names an entry uniquely. *)
(***************************************************************************)
EXTENDS Integers, Sequences, FiniteSets, TLC

(***************************************************************************)
(* Python str and list operations                                          *)
(***************************************************************************)

\* The characters of names, in code point order (what str comparison uses).
CodePoints == <<"\n", " ", "#", ".", "/", "2", "B", "G", "N", "P", "_",
                "a", "b", "c", "d", "e", "g", "i", "j", "l", "m", "n",
                "o", "p", "r", "s", "t", "u", "w", "x", "y", "z">>

\* ord(c) for the characters above
OrdTable == [c \in {CodePoints[i] : i \in 1..Len(CodePoints)} |->
                CHOOSE i \in 1..Len(CodePoints) : CodePoints[i] = c]

\* ord(c); a token outside CodePoints (a literal of the program) sorts last.
Ord(c) == IF c \in DOMAIN OrdTable THEN OrdTable[c] ELSE Len(CodePoints) + 1

\* str.lower() on one character.
LowerChar(c) ==
    CASE c = "B" -> "b"
      [] c = "G" -> "g"
      [] c = "N" -> "n"
      [] c = "P" -> "p"
      [] OTHER -> c

\* str.lower()
Lower(s) == [i \in 1..Len(s) |-> LowerChar(s[i])]

Range(s) == {s[i] : i \in 1..Len(s)}

\* s.startswith(p), p one string
StartsWith(s, p) == Len(p) <= Len(s) /\ SubSeq(s, 1, Len(p)) = p

\* s.startswith(t), t a tuple of strings: true when s starts with any of them
StartsWithAny(s, t) == \E i \in 1..Len(t) : StartsWith(s, t[i])

\* a < b for str (lexicographic by code point, a proper prefix first): at
\* the first place k where they differ, a has ended or holds the lesser
\* character
StrLess(a, b) ==
    \E k \in 1..Len(b) :
        /\ Len(a) >= k - 1
        /\ SubSeq(a, 1, k - 1) = SubSeq(b, 1, k - 1)
        /\ (Len(a) = k - 1 \/ Ord(a[k]) < Ord(b[k]))

\* sorted(S) / list.sort() on a collection of distinct strings
RECURSIVE Sorted(_)
Sorted(S) ==
    IF S = {} THEN <<>>
    ELSE LET m == CHOOSE x \in S : \A y \in S \ {x} : StrLess(x, y)
         IN  <<m>> \o Sorted(S \ {m})

\* The places of token c in s, ascending
Positions(s, c) == SelectSeq([i \in 1..Len(s) |-> i], LAMBDA i : s[i] = c)

\* s.split(sep): the pieces between the separators (always at least one piece)
Split(s, sep) ==
    LET at == Positions(s, sep)
    IN  [k \in 1..(Len(at) + 1) |->
            SubSeq(s, IF k = 1 THEN 1 ELSE at[k - 1] + 1,
                      IF k = Len(at) + 1 THEN Len(s) ELSE at[k] - 1)]

\* sep.join(parts)
RECURSIVE Join(_, _)
Join(parts, sep) ==
    IF parts = <<>> THEN <<>>
    ELSE IF Len(parts) = 1 THEN parts[1]
    ELSE parts[1] \o <<sep>> \o Join(Tail(parts), sep)

IsSpace(c) == c \in {" ", "\n", "    ", "   ", "  "}

\* s.strip()
RECURSIVE LStrip(_)
LStrip(s) == IF s # <<>> /\ IsSpace(s[1]) THEN LStrip(Tail(s)) ELSE s

RECURSIVE RStrip(_)
RStrip(s) ==
    IF s # <<>> /\ IsSpace(s[Len(s)]) THEN RStrip(SubSeq(s, 1, Len(s) - 1)) ELSE s

Strip(s) == RStrip(LStrip(s))

\* s * n
RECURSIVE Repeat(_, _)
Repeat(s, n) == IF n <= 0 THEN <<>> ELSE s \o Repeat(s, n - 1)

\* The lines of a text, each with its line end (what iterating a file or
\* readlines() yields); a last line without line end is a line too.
Lines(s) ==
    LET at == Positions(s, "\n")
        n  == IF s = <<>> \/ s[Len(s)] = "\n" THEN Len(at) ELSE Len(at) + 1
    IN  [k \in 1..n |->
            SubSeq(s, IF k = 1 THEN 1 ELSE at[k - 1] + 1,
                      IF k > Len(at) THEN Len(s) ELSE at[k])]

(***************************************************************************)
(* State                                                                   *)
(***************************************************************************)

VARIABLES
    fs,        \* the file system: absolute path -> [kind, content, fail]
    fs0,       \* the file system as it was before the first run (observer)
    cwd,       \* the process's working directory (absolute path)
    argv,      \* the command line, as argparse sees it
    config,    \* the module-level config loaded from config.json
    args,      \* the argparse.Namespace of the current run
    gitignore_patterns,   \* main's local of that name
    pc,        \* where main stands
    stack,     \* the recursion stack of write_tree / write_file_contents_in_order
    doc,       \* what the current run has written to output_file so far
    stdout,    \* what the current run has printed
    treeLog,   \* observer: the items write_tree wrote a line for, in order
    dumpLog,   \* observer: the files the dump wrote markers for, in order
    run,       \* number of the current run (the tool is run MaxRuns times)
    prevRun    \* observer: what the previous run read, wrote and how it ended

vars == <<fs, fs0, cwd, argv, config, args, gitignore_patterns, pc, stack,
          doc, stdout, treeLog, dumpLog, run, prevRun>>

(***************************************************************************)
(* os.path over the modelled file system                                   *)
(***************************************************************************)

SEP == "/"

\* os.path.isabs
IsAbs(p) == p # <<>> /\ p[1] = SEP

\* os.path.join(a, b)
PathJoin(a, b) ==
    IF IsAbs(b) THEN b
    ELSE IF a = <<>> \/ a[Len(a)] = SEP THEN a \o b
    ELSE a \o <<SEP>> \o b

\* The segment walk of os.path.normpath on an absolute path: empty and "."
\* segments are dropped, ".." removes the segment before it.
RECURSIVE NormSegs(_, _)
NormSegs(segs, acc) ==
    IF segs = <<>> THEN acc
    ELSE IF segs[1] = <<>> \/ segs[1] = <<".">> THEN NormSegs(Tail(segs), acc)
    ELSE IF segs[1] = <<".", ".">>
         THEN NormSegs(Tail(segs),
                       IF acc = <<>> THEN acc ELSE SubSeq(acc, 1, Len(acc) - 1))
    ELSE NormSegs(Tail(segs), Append(acc, segs[1]))

\* The segments of os.path.abspath(p)
AbsSegs(p) == NormSegs(Split(PathJoin(cwd, p), SEP), <<>>)

\* os.path.abspath(p) = normpath(join(os.getcwd(), p))
abspath(p) == <<SEP>> \o Join(AbsSegs(p), SEP)

\* os.path.basename(p): what follows the last separator
basename(p) ==
    LET at == Positions(p, SEP)
    IN  IF at = <<>> THEN p ELSE SubSeq(p, at[Len(at)] + 1, Len(p))

\* os.path.dirname(q) for a normalised absolute path q
dirname(q) ==
    LET at == Positions(q, SEP)
    IN  IF at[Len(at)] = 1 THEN <<SEP>> ELSE SubSeq(q, 1, at[Len(at)] - 1)

\* os.path.splitext(name)[1] for a name without separator: from the last dot
\* on, unless only dots precede that dot
splitext_ext(name) ==
    IF \A i \in 1..Len(name) : name[i] # "." THEN <<>>
    ELSE LET d == CHOOSE i \in 1..Len(name) :
                      name[i] = "." /\ \A j \in (i + 1)..Len(name) : name[j] # "."
         IN  IF \E j \in 1..(d - 1) : name[j] # "."
             THEN SubSeq(name, d, Len(name))
             ELSE <<>>

\* The length of the longest common prefix of two segment lists
CommonLen(a, b) ==
    CHOOSE k \in 0..Len(a) :
        /\ k <= Len(b)
        /\ SubSeq(a, 1, k) = SubSeq(b, 1, k)
        /\ (k = Len(a) \/ k = Len(b) \/ a[k + 1] # b[k + 1])

\* os.path.relpath(path, start=start)
relpath(path, start) ==
    LET start_list == AbsSegs(start)
        path_list  == AbsSegs(path)
        i          == CommonLen(start_list, path_list)
        rel_list   == [k \in 1..(Len(start_list) - i) |-> <<".", ".">>]
                      \o SubSeq(path_list, i + 1, Len(path_list))
    IN  IF rel_list = <<>> THEN <<".">> ELSE Join(rel_list, SEP)

\* os.path.exists / isdir / isfile
exists(p) == abspath(p) \in DOMAIN fs
isdir(p)  == exists(p) /\ fs[abspath(p)].kind = "dir"
isfile(p) == exists(p) /\ fs[abspath(p)].kind = "file"

\* os.listdir(p): the names in directory p, in no particular order
listdir(p) ==
    LET d == abspath(p)
    IN  {basename(q) : q \in {x \in DOMAIN fs : x # <<SEP>> /\ dirname(x) = d}}

(***************************************************************************)
(* Module-level configuration (lines 8-31)                                 *)
(***************************************************************************)

\* The text of config.json, kept as one token: the model does not look inside
\* it, json.load either recognises it or fails.
ConfigJsonText == <<"{config.json}">>

\* What json.load yields for ConfigJsonText: the extension lists and the
\* default output file name.
ConfigJson ==
    [image_extensions        |-> << <<".", "p", "n", "g">>, <<".", "j", "p", "g">> >>,
     video_extensions        |-> <<>>,
     audio_extensions        |-> <<>>,
     document_extensions     |-> <<>>,
     executable_extensions   |-> <<>>,
     settings_extensions     |-> << <<".", "j", "s", "o", "n">> >>,
     additional_ignore_types |-> << <<".", "l", "o", "g">> >>,
     default_output_file     |-> <<"o", "u", "t", "p", "u", "t", ".", "t", "x", "t">>]

NoConfig ==
    [image_extensions |-> <<>>, video_extensions |-> <<>>, audio_extensions |-> <<>>,
     document_extensions |-> <<>>, executable_extensions |-> <<>>,
     settings_extensions |-> <<>>, additional_ignore_types |-> <<>>,
     default_output_file |-> <<>>]

\* load_config("config.json"): the path is relative, so it is read from the
\* working directory; open() or json.load() raising ends the process.
ConfigPath == <<"c", "o", "n", "f", "i", "g", ".", "j", "s", "o", "n">>

load_config_ok(file_path) ==
    /\ isfile(file_path)
    /\ fs[abspath(file_path)].fail = "none"
    /\ fs[abspath(file_path)].content = ConfigJsonText

IMAGE_EXTENSIONS        == config.image_extensions
VIDEO_EXTENSIONS        == config.video_extensions
AUDIO_EXTENSIONS        == config.audio_extensions
DOCUMENT_EXTENSIONS     == config.document_extensions
EXECUTABLE_EXTENSIONS   == config.executable_extensions
SETTINGS_EXTENSIONS     == config.settings_extensions
ADDITIONAL_IGNORE_TYPES == config.additional_ignore_types
DEFAULT_OUTPUT_FILE     == config.default_output_file

(***************************************************************************)
(* parse_args (lines 34-105) and main's normalisation (lines 295-306)      *)
(***************************************************************************)

\* An option of the command line: given with a value, or left out.
Given(v) == [given |-> TRUE, value |-> v]
Omitted  == [given |-> FALSE, value |-> <<>>]

OrDefault(opt, default) == IF opt.given THEN opt.value ELSE default

\* The default of --ignore-types (lines 76-80)
DefaultIgnoreTypes ==
    IMAGE_EXTENSIONS \o VIDEO_EXTENSIONS \o AUDIO_EXTENSIONS
    \o DOCUMENT_EXTENSIONS \o EXECUTABLE_EXTENSIONS

\* parse_args(): the Namespace for command line av
parse_args(av) ==
    [repo_path       |-> OrDefault(av.repo_path, cwd),
     output_file     |-> OrDefault(av.output_file, DEFAULT_OUTPUT_FILE),
     ignore_files    |-> OrDefault(av.ignore_files, <<>>),
     ignore_types    |-> OrDefault(av.ignore_types, DefaultIgnoreTypes),
     exclude_dir     |-> OrDefault(av.exclude_dir, <<>>),
     ignore_settings |-> av.ignore_settings,
     include_dir     |-> OrDefault(av.include_dir, <<>>),
     use_gitignore   |-> av.use_gitignore]

NONE == << <<"n", "o", "n", "e">> >>

\* Line 295 and line 306: the keyword "none" stands for the empty list
NoneToEmpty(list) == IF list = NONE THEN <<>> ELSE list

\* Lines 296-305: the list of ignored extensions main uses
NormalizedIgnoreTypes(list) ==
    IF list = NONE THEN <<>>
    ELSE IMAGE_EXTENSIONS \o VIDEO_EXTENSIONS \o AUDIO_EXTENSIONS
         \o DOCUMENT_EXTENSIONS \o EXECUTABLE_EXTENSIONS
         \o ADDITIONAL_IGNORE_TYPES

(***************************************************************************)
(* should_ignore (lines 108-152), rule by rule                             *)
(***************************************************************************)

\* Line 123
file_ext_of(item) == Lower(splitext_ext(basename(item)))

\* A variant of lines 126-127 that compares the two paths as given
IsOutputFile_AsGiven(item, output_file_path) ==
    item = output_file_path

\* Lines 126-127: the item is the output file
IsOutputFile(item, output_file_path) ==
    abspath(item) = abspath(output_file_path)

\* Lines 129-130: a directory named in --exclude-dir
IsExcludedDir(item, a) ==
    isdir(item) /\ a.exclude_dir # <<>> /\ basename(item) \in Range(a.exclude_dir)

\* Lines 132-135: not below --include-dir (a test on the path strings)
OutsideIncludeDir(item, a) ==
    a.include_dir # <<>>
    /\ ~StartsWith(abspath(item), abspath(a.include_dir))

\* Lines 137-140: a file ignored by name or by extension
IsIgnoredFile(item, a) ==
    isfile(item)
    /\ (basename(item) \in Range(a.ignore_files)
        \/ file_ext_of(item) \in Range(a.ignore_types))

\* Lines 142-143: a settings extension (files and directories alike)
IsSettings(item, a) ==
    a.ignore_settings /\ file_ext_of(item) \in Range(SETTINGS_EXTENSIONS)

\* Lines 147-149: one pattern against the item; str.startswith is given the
\* tuple of the pattern's pieces
PatternMatches(item, a, pattern) ==
    StartsWithAny(relpath(item, a.repo_path), Split(pattern, SEP))

\* Lines 145-150
IsGitIgnored(item, a, patterns) ==
    a.use_gitignore
    /\ \E i \in 1..Len(patterns) : PatternMatches(item, a, patterns[i])

should_ignore(item, a, output_file_path, patterns) ==
    \/ IsOutputFile(item, output_file_path)
    \/ IsExcludedDir(item, a)
    \/ OutsideIncludeDir(item, a)
    \/ IsIgnoredFile(item, a)
    \/ IsSettings(item, a)
    \/ IsGitIgnored(item, a, patterns)

(***************************************************************************)
(* load_gitignore_patterns (lines 155-176)                                 *)
(***************************************************************************)

GitignoreName == <<".", "g", "i", "t", "i", "g", "n", "o", "r", "e">>

\* Lines 170-174: the comprehension over readlines()
RECURSIVE PatternsOf(_)
PatternsOf(lines) ==
    IF lines = <<>> THEN <<>>
    ELSE LET pattern == Strip(lines[1])
         IN  (IF pattern # <<>> /\ ~StartsWith(pattern, <<"#">>)
              THEN <<pattern>> ELSE <<>>)
             \o PatternsOf(Tail(lines))

\* open() of an existing .gitignore raises when it is a directory or
\* cannot be read
load_gitignore_raises(repo_path) ==
    LET gitignore_path == PathJoin(repo_path, GitignoreName)
    IN  exists(gitignore_path)
        /\ (~isfile(gitignore_path) \/ fs[abspath(gitignore_path)].fail # "none")

load_gitignore_patterns(repo_path) ==
    LET gitignore_path == PathJoin(repo_path, GitignoreName)
    IN  IF exists(gitignore_path)
        THEN PatternsOf(Lines(fs[abspath(gitignore_path)].content))
        ELSE <<>>

(***************************************************************************)
(* The text main and the traversals write                                  *)
(***************************************************************************)

NL == "\n"

\* Lines 321-332
HeaderText ==
    <<"Repository Documentation", NL,
      "This document provides a comprehensive overview of the repository's structure and contents.", NL,
      "The first section, titled 'Directory", SEP, "File Tree', displays the repository's hierarchy in a tree format.", NL,
      "In this section, directories and files are listed using tree branches to indicate their structure and relationships.", NL,
      "Following the tree representation, the 'File Content' section details the contents of each file in the repository.", NL,
      "Each file's content is introduced with a '[File Begins]' marker followed by the file's relative path,", NL,
      "and the content is displayed verbatim. The end of each file's content is marked with a '[File Ends]' marker.", NL,
      "This format ensures a clear and orderly presentation of both the structure and the detailed contents of the repository.", NL, NL,
      "Directory", SEP, "File Tree Begins -->", NL, NL>>

\* Lines 342-343
TreeEndText ==
    <<NL, "<-- Directory", SEP, "File Tree Ends", NL, NL, "File Content Begin -->", NL>>

\* Line 347
ContentEndText == <<NL, "<-- File Content Ends", NL, NL>>

\* Line 316
RootErrorText(repo_path) ==
    <<"Error: The specified directory does not exist, path is wrong or is not a directory:", " ">>
    \o repo_path \o <<NL>>

\* Lines 216-217: the branch glyph of a line and what it adds to the prefix
\* of the lines below it.  The box-drawing glyphs are written in ASCII here:
\* "+--" is the corner (U+2514 U+2500 U+2500), "|--" the tee (U+251C ...),
\* "|" the vertical bar (U+2502).
CORNER == <<"+--", " ">>
TEE    == <<"|--", " ">>
BLANKS == <<"    ">>
BAR    == <<"|", "   ">>

\* Line 215
IsLastItem(index, num_items) == index = num_items - 1

\* Line 219
TreeLine(prefix, new_prefix, item) == prefix \o new_prefix \o basename(item) \o <<NL>>

\* Line 243
Indentation(depth) == Repeat(<<"  ">>, depth)

\* str(e) of the OSError a failing open() or read raises
ErrorText(file_path) ==
    <<"[Errno 13] Permission denied:", " ", "'">> \o file_path \o <<"'">>

\* Line 248 over the lines of a file
RECURSIVE IndentLines(_, _)
IndentLines(lines, indentation) ==
    IF lines = <<>> THEN <<>>
    ELSE indentation \o lines[1] \o IndentLines(Tail(lines), indentation)

\* A variant of line 250 that leaves the indentation out
ErrorLine_Unindented(file_path, depth) ==
    <<"Error reading file:", " ">> \o ErrorText(file_path) \o <<NL>>

\* Line 250
ErrorLine(file_path, depth) ==
    Indentation(depth) \o <<"Error reading file:", " ">> \o ErrorText(file_path) \o <<NL>>

\* write_file_content (lines 234-250): what it writes for file_path.  A file
\* whose open() fails yields the error line alone; one whose read fails
\* after the first line yields that line, then the error line.
write_file_content(file_path, depth) ==
    LET f     == fs[abspath(file_path)]
        lines == Lines(f.content)
    IN  CASE f.fail = "none" -> IndentLines(lines, Indentation(depth))
          [] f.fail = "open" -> ErrorLine(file_path, depth)
          [] f.fail = "read" ->
                 IndentLines(SubSeq(lines, 1, 1), Indentation(depth))
                 \o ErrorLine(file_path, depth)

\* Line 283
BeginMarker(relative_path, depth) ==
    Indentation(depth) \o <<"[File Begins]", " ">> \o relative_path \o <<NL>>

\* Line 285
EndMarker(relative_path, depth) ==
    <<NL>> \o Indentation(depth) \o <<"[File Ends]", " ">> \o relative_path \o <<NL, NL>>

\* A variant of lines 205-206 without the sort: the names as the operating
\* system happens to yield them (here: descending)
TreeItems_Unsorted(dir_path) ==
    LET up == Sorted(listdir(dir_path))
    IN  [i \in 1..Len(up) |-> up[Len(up) + 1 - i]]

\* A variant of lines 205-206 that drops the ignored names before the loop,
\* as lines 266-272 do
TreeItems_Filtered(dir_path) ==
    Sorted({item \in listdir(dir_path) :
               ~should_ignore(PathJoin(dir_path, item), args, args.output_file,
                              gitignore_patterns)})

\* Lines 205-206: the sorted, unfiltered listing write_tree walks
TreeItems(dir_path) == Sorted(listdir(dir_path))

\* A variant of lines 266-272 without the filter
DumpItems_Unfiltered(dir_path, a, patterns) ==
    Sorted(listdir(dir_path))

\* Lines 266-272: the filtered, sorted listing the dump walks
DumpItems(dir_path, a, patterns) ==
    Sorted({item \in listdir(dir_path) :
               ~should_ignore(PathJoin(dir_path, item), a, a.output_file, patterns)})

(***************************************************************************)
(* main (lines 288-347), one action per step                               *)
(***************************************************************************)

\* The number of times the tool is run, one run after the other, on the
\* file system the run before left.
MaxRuns == 2

NoArgs ==
    [repo_path |-> <<>>, output_file |-> <<>>, ignore_files |-> <<>>,
     ignore_types |-> <<>>, exclude_dir |-> <<>>, ignore_settings |-> FALSE,
     include_dir |-> <<>>, use_gitignore |-> FALSE]

\* A variant in which the output file is created only when it is closed
FsAfterOpen_Deferred(path) == fs

\* The file system after open(path, "w") on it: the file exists and is empty
FsAfterOpen(path) ==
    [q \in DOMAIN fs \cup {abspath(path)} |->
        IF q = abspath(path)
        THEN [kind |-> "file", content |-> <<>>, fail |-> "none"]
        ELSE fs[q]]

\* The file system after the output file is closed: it holds what was written
FsAfterClose(path, text) ==
    [q \in DOMAIN fs \cup {abspath(path)} |->
        IF q = abspath(path)
        THEN [kind |-> "file", content |-> text, fail |-> "none"]
        ELSE fs[q]]

\* open(path, "w") raises when the directory of path does not exist or path
\* names a directory
open_w_raises(path) ==
    \/ path = <<>>
    \/ isdir(path)
    \/ dirname(abspath(path)) \notin DOMAIN fs
    \/ fs[dirname(abspath(path))].kind # "dir"

\* A variant of line 314 that asks for existence only
RepoPathValid_Exists(a) == exists(a.repo_path)

\* Line 314
RepoPathValid(a) == isdir(a.repo_path)

\* Lines 23-31, run when the module is loaded
LoadConfig ==
    /\ pc = "import"
    /\ IF load_config_ok(ConfigPath)
       THEN config' = ConfigJson /\ pc' = "parse_args"
       ELSE config' = config /\ pc' = "crashed"
    /\ UNCHANGED <<fs, fs0, cwd, argv, args, gitignore_patterns, stack, doc,
                   stdout, treeLog, dumpLog, run, prevRun>>

\* Line 292
ParseArgs ==
    /\ pc = "parse_args"
    /\ args' = parse_args(argv)
    /\ pc' = "normalize"
    /\ UNCHANGED <<fs, fs0, cwd, argv, config, gitignore_patterns, stack, doc,
                   stdout, treeLog, dumpLog, run, prevRun>>

\* Lines 295-306
Normalize ==
    /\ pc = "normalize"
    /\ args' = [args EXCEPT !.ignore_files = NoneToEmpty(args.ignore_files),
                            !.ignore_types = NormalizedIgnoreTypes(args.ignore_types),
                            !.exclude_dir  = NoneToEmpty(args.exclude_dir)]
    /\ pc' = "load_gitignore"
    /\ UNCHANGED <<fs, fs0, cwd, argv, config, gitignore_patterns, stack, doc,
                   stdout, treeLog, dumpLog, run, prevRun>>

\* Lines 309-311
LoadGitignore ==
    /\ pc = "load_gitignore"
    /\ IF args.use_gitignore /\ load_gitignore_raises(args.repo_path)
       THEN gitignore_patterns' = gitignore_patterns /\ pc' = "crashed"
       ELSE /\ gitignore_patterns' =
                  IF args.use_gitignore
                  THEN load_gitignore_patterns(args.repo_path) ELSE <<>>
            /\ pc' = "check_root"
    /\ UNCHANGED <<fs, fs0, cwd, argv, config, args, stack, doc, stdout,
                   treeLog, dumpLog, run, prevRun>>

\* Lines 314-318
CheckRoot ==
    /\ pc = "check_root"
    /\ IF ~RepoPathValid(args)
       THEN stdout' = stdout \o RootErrorText(args.repo_path) /\ pc' = "done"
       ELSE stdout' = stdout /\ pc' = "open"
    /\ UNCHANGED <<fs, fs0, cwd, argv, config, args, gitignore_patterns, stack,
                   doc, treeLog, dumpLog, run, prevRun>>

\* Lines 320-332: the output file is opened, which creates or empties it,
\* and the header is written
OpenOutput ==
    /\ pc = "open"
    /\ IF open_w_raises(args.output_file)
       THEN fs' = fs /\ doc' = doc /\ pc' = "crashed"
       ELSE /\ fs' = FsAfterOpen(args.output_file)
            /\ doc' = HeaderText
            /\ pc' = "write_tree"
    /\ UNCHANGED <<fs0, cwd, argv, config, args, gitignore_patterns, stack,
                   stdout, treeLog, dumpLog, run, prevRun>>

(***************************************************************************)
(* write_tree (lines 179-231)                                              *)
(***************************************************************************)

TreeFrame(dir_path, prefix) ==
    [dir_path |-> dir_path, items |-> TreeItems(dir_path), index |-> 0,
     prefix |-> prefix]

Top == stack[Len(stack)]
Pop == SubSeq(stack, 1, Len(stack) - 1)

\* Lines 333-341 and 201-207: the call on the root
TreeCall ==
    /\ pc = "write_tree"
    /\ doc' = doc \o basename(args.repo_path) \o <<SEP, NL>>
    /\ stack' = <<TreeFrame(args.repo_path, <<>>)>>
    /\ pc' = "tree"
    /\ UNCHANGED <<fs, fs0, cwd, argv, config, args, gitignore_patterns,
                   stdout, treeLog, dumpLog, run, prevRun>>

\* Lines 209-231: one iteration of the loop of the innermost call
TreeStep ==
    /\ pc = "tree"
    /\ stack # <<>>
    /\ Top.index < Len(Top.items)
    /\ LET f            == Top
           item         == f.items[f.index + 1]
           item_path    == PathJoin(f.dir_path, item)
           is_last_item == IsLastItem(f.index, Len(f.items))
           new_prefix   == IF is_last_item THEN CORNER ELSE TEE
           child_prefix == IF is_last_item THEN BLANKS ELSE BAR
           advanced     == Append(Pop, [f EXCEPT !.index = f.index + 1])
       IN  IF should_ignore(item_path, args, args.output_file, gitignore_patterns)
           THEN /\ stack' = advanced
                /\ UNCHANGED <<doc, treeLog>>
           ELSE /\ doc' = doc \o TreeLine(f.prefix, new_prefix, item)
                /\ treeLog' = Append(treeLog,
                                     [path |-> item_path, dir_path |-> f.dir_path,
                                      new_prefix |-> new_prefix, prefix |-> f.prefix])
                /\ stack' = IF isdir(item_path)
                            THEN Append(advanced,
                                        TreeFrame(item_path, f.prefix \o child_prefix))
                            ELSE advanced
    /\ UNCHANGED <<fs, fs0, cwd, argv, config, args, gitignore_patterns, pc,
                   stdout, dumpLog, run, prevRun>>

\* The loop of the innermost call ends: the call returns
TreeReturn ==
    /\ pc = "tree"
    /\ stack # <<>>
    /\ Top.index = Len(Top.items)
    /\ stack' = Pop
    /\ UNCHANGED <<fs, fs0, cwd, argv, config, args, gitignore_patterns, pc,
                   doc, stdout, treeLog, dumpLog, run, prevRun>>

(***************************************************************************)
(* write_file_contents_in_order (lines 253-285)                            *)
(***************************************************************************)

DumpFrame(dir_path, depth) ==
    [dir_path |-> dir_path,
     items |-> DumpItems(dir_path, args, gitignore_patterns),
     index |-> 0, depth |-> depth]

\* Lines 342-346: write_tree has returned; the dump is called on the root
DumpCall ==
    /\ pc = "tree"
    /\ stack = <<>>
    /\ doc' = doc \o TreeEndText
    /\ stack' = <<DumpFrame(args.repo_path, 0)>>
    /\ pc' = "dump"
    /\ UNCHANGED <<fs, fs0, cwd, argv, config, args, gitignore_patterns,
                   stdout, treeLog, dumpLog, run, prevRun>>

\* Lines 274-285: one iteration of the loop of the innermost call
DumpStep ==
    /\ pc = "dump"
    /\ stack # <<>>
    /\ Top.index < Len(Top.items)
    /\ LET f             == Top
           item          == f.items[f.index + 1]
           item_path     == PathJoin(f.dir_path, item)
           relative_path == relpath(item_path, args.repo_path)
           advanced      == Append(Pop, [f EXCEPT !.index = f.index + 1])
       IN  IF isdir(item_path)
           THEN /\ stack' = Append(advanced, DumpFrame(item_path, f.depth + 1))
                /\ UNCHANGED <<doc, dumpLog>>
           ELSE IF isfile(item_path)
           THEN /\ doc' = doc \o BeginMarker(relative_path, f.depth)
                              \o write_file_content(item_path, f.depth)
                              \o EndMarker(relative_path, f.depth)
                /\ dumpLog' = Append(dumpLog,
                                     [path |-> item_path,
                                      relative_path |-> relative_path,
                                      depth |-> f.depth])
                /\ stack' = advanced
           ELSE /\ stack' = advanced
                /\ UNCHANGED <<doc, dumpLog>>
    /\ UNCHANGED <<fs, fs0, cwd, argv, config, args, gitignore_patterns, pc,
                   stdout, treeLog, run, prevRun>>

DumpReturn ==
    /\ pc = "dump"
    /\ stack # <<>>
    /\ Top.index = Len(Top.items)
    /\ stack' = Pop
    /\ UNCHANGED <<fs, fs0, cwd, argv, config, args, gitignore_patterns, pc,
                   doc, stdout, treeLog, dumpLog, run, prevRun>>

\* Line 347 and the end of the with block: the file is closed
Finish ==
    /\ pc = "dump"
    /\ stack = <<>>
    /\ doc' = doc \o ContentEndText
    /\ fs' = FsAfterClose(args.output_file, doc')
    /\ pc' = "done"
    /\ UNCHANGED <<fs0, cwd, argv, config, args, gitignore_patterns, stack,
                   stdout, treeLog, dumpLog, run, prevRun>>

\* The tool is started again with the same command line in the same
\* working directory
NextRun ==
    /\ pc \in {"done", "crashed"}
    /\ run < MaxRuns
    /\ run' = run + 1
    /\ prevRun' = [pc |-> pc, doc |-> doc, stdout |-> stdout,
                   config |-> config, gitignore_patterns |-> gitignore_patterns]
    /\ pc' = "import"
    /\ config' = NoConfig
    /\ args' = NoArgs
    /\ gitignore_patterns' = <<>>
    /\ doc' = <<>>
    /\ stdout' = <<>>
    /\ treeLog' = <<>>
    /\ dumpLog' = <<>>
    /\ UNCHANGED <<fs, fs0, cwd, argv, stack>>

Next ==
    \/ LoadConfig
    \/ ParseArgs
    \/ Normalize
    \/ LoadGitignore
    \/ CheckRoot
    \/ OpenOutput
    \/ TreeCall
    \/ TreeStep
    \/ TreeReturn
    \/ DumpCall
    \/ DumpStep
    \/ DumpReturn
    \/ Finish
    \/ NextRun

(***************************************************************************)
(* The runs checked: file systems, working directories and command lines   *)
(***************************************************************************)

Dir(p)     == <<p, [kind |-> "dir", content |-> <<>>, fail |-> "none"]>>
File(p, c) == <<p, [kind |-> "file", content |-> c, fail |-> "none"]>>

MkFs(pairs) ==
    [p \in {x[1] : x \in pairs} |-> (CHOOSE x \in pairs : x[1] = p)[2]]

W    == <<"/", "w">>
ROOT == <<"/", "w", "/", "r">>

\* What every file system holds: /, /w and the repository root /w/r
BaseEntries == {Dir(<<SEP>>), Dir(W), Dir(ROOT)}

\* a.txt, b.png and sub/c.txt
Tree1 ==
    [subdir  |-> <<"s", "u", "b">>,
     entries |-> {File(<<"/", "w", "/", "r", "/", "a", ".", "t", "x", "t">>, <<"a", "\n", "b", "\n">>),
                  File(<<"/", "w", "/", "r", "/", "b", ".", "p", "n", "g">>, <<"p">>),
                  Dir(<<"/", "w", "/", "r", "/", "s", "u", "b">>),
                  File(<<"/", "w", "/", "r", "/", "s", "u", "b", "/", "c", ".", "t", "x", "t">>, <<"c", "\n">>)}]

\* A directory whose last entries are ignored by default, an upper-case
\* extension, a file without extension
Tree2 ==
    [subdir  |-> <<"d">>,
     entries |-> {File(<<"/", "w", "/", "r", "/", "B", ".", "P", "N", "G">>, <<"p">>),
                  File(<<"/", "w", "/", "r", "/", "a", ".", "t", "x", "t">>, <<"a", "\n">>),
                  Dir(<<"/", "w", "/", "r", "/", "d">>),
                  File(<<"/", "w", "/", "r", "/", "d", "/", "e", ".", "t", "x", "t">>, <<"e">>),
                  File(<<"/", "w", "/", "r", "/", "d", "/", "n">>, <<"n", "\n">>),
                  File(<<"/", "w", "/", "r", "/", "z", ".", "p", "n", "g">>, <<"p">>)}]

\* A tree for .gitignore patterns
GitEntries ==
    {File(<<"/", "w", "/", "r", "/", "a", ".", "t", "x", "t">>, <<"a", "\n">>),
     Dir(<<"/", "w", "/", "r", "/", "b", "u", "i", "l", "d">>),
     File(<<"/", "w", "/", "r", "/", "b", "u", "i", "l", "d", "/", "x", ".", "p", "y">>, <<"x", "\n">>),
     File(<<"/", "w", "/", "r", "/", "b", "u", "i", "l", "d", "e", "r", ".", "p", "y">>, <<"b", "\n">>),
     File(<<"/", "w", "/", "r", "/", "g", "e", "n", ".", "p", "y">>, <<"g", "\n">>),
     Dir(<<"/", "w", "/", "r", "/", "s", "r", "c">>),
     Dir(<<"/", "w", "/", "r", "/", "s", "r", "c", "/", "g", "e", "n">>),
     File(<<"/", "w", "/", "r", "/", "s", "r", "c", "/", "g", "e", "n", "/", "g", ".", "p", "y">>, <<"g", "\n">>),
     File(<<"/", "w", "/", "r", "/", "s", "r", "c", "/", "m", ".", "p", "y">>, <<"m", "\n">>)}

GitignoreTexts ==
    {<<"b", "u", "i", "l", "d", "\n">>,
     <<"#", " ", "b", "u", "i", "l", "d", "\n", "\n", " ", " ", "s", "r", "c", "/", "g", "e", "n", " ", " ", "\n">>,
     <<"s", "r", "c", "/", "g", "e", "n", "\n", "b", "u", "i", "l", "d">>,
     <<"/", "b", "u", "i", "l", "d", "\n">>}

\* A tree for --include-dir
Tree3 ==
    [subdir  |-> <<"s", "u", "b">>,
     entries |-> {File(<<"/", "w", "/", "r", "/", "a", ".", "t", "x", "t">>, <<"a", "\n">>),
                  Dir(<<"/", "w", "/", "r", "/", "s", "u", "b">>),
                  File(<<"/", "w", "/", "r", "/", "s", "u", "b", "/", "c", ".", "t", "x", "t">>, <<"c", "\n">>),
                  Dir(<<"/", "w", "/", "r", "/", "s", "u", "b", "2">>),
                  File(<<"/", "w", "/", "r", "/", "s", "u", "b", "2", "/", "d", ".", "t", "x", "t">>, <<"d", "\n">>),
                  Dir(<<"/", "w", "/", "r", "/", "x">>),
                  Dir(<<"/", "w", "/", "r", "/", "x", "/", "s", "u", "b">>),
                  File(<<"/", "w", "/", "r", "/", "x", "/", "s", "u", "b", "/", "e", ".", "t", "x", "t">>, <<"e", "\n">>)}]

Argv0 ==
    [repo_path |-> Omitted, output_file |-> Omitted, ignore_files |-> Omitted,
     ignore_types |-> Omitted, exclude_dir |-> Omitted, ignore_settings |-> FALSE,
     include_dir |-> Omitted, use_gitignore |-> FALSE]

\* Where the tool is started and how the repository root is named
Places ==
    {[cwd |-> ROOT, repo_path |-> Omitted],
     [cwd |-> ROOT, repo_path |-> Given(<<".">>)],
     [cwd |-> ROOT, repo_path |-> Given(ROOT)],
     [cwd |-> W,    repo_path |-> Given(<<"r">>)],
     [cwd |-> W,    repo_path |-> Given(ROOT)]}

\* The output files tried from a working directory: the default, the last
\* name of the root, a file in a subdirectory, a file outside the tree, and
\* the two files the tool itself reads
Outputs(place, subdir) ==
    IF place.cwd = ROOT
    THEN {Omitted, Given(<<"z", "z", ".", "t", "x", "t">>), Given(subdir \o <<"/", "o", "u", "t", ".", "t", "x", "t">>),
          Given(<<"/", "w", "/", "o", ".", "t", "x", "t">>), Given(GitignoreName), Given(ConfigPath)}
    ELSE {Omitted, Given(<<"r", "/", "z", "z", ".", "t", "x", "t">>), Given(<<"r", "/">> \o subdir \o <<"/", "o", "u", "t", ".", "t", "x", "t">>),
          Given(<<"r", "/", ".", "g", "i", "t", "i", "g", "n", "o", "r", "e">>), Given(ConfigPath)}

Scenario(entries, cwd_, argv_, pre_, fails_) ==
    [entries |-> entries, cwd |-> cwd_, argv |-> argv_, pre |-> pre_,
     fails |-> fails_]

\* Where the output file lies, whether it exists before the first run
OutputScenarios ==
    UNION {
        {Scenario(t.entries, pl.cwd,
                  [Argv0 EXCEPT !.repo_path = pl.repo_path, !.output_file = out,
                                !.use_gitignore = g],
                  pre, {}) :
            out \in Outputs(pl, t.subdir), pre \in BOOLEAN, g \in BOOLEAN} :
        t \in {Tree1, Tree2}, pl \in Places}

\* The filter options
FilterScenarios ==
    UNION {
    {Scenario(t.entries, ROOT,
              [Argv0 EXCEPT !.ignore_types = ty, !.ignore_files = nf,
                            !.exclude_dir = xd, !.ignore_settings = st],
              FALSE, {}) :
        ty \in {Omitted, Given(NONE), Given(<<>>), Given(<< <<".", "j", "p", "g">> >>),
                Given(<< <<".", "p", "n", "g">> >>)},
        nf \in {Omitted, Given(NONE), Given(<< <<"a", ".", "t", "x", "t">> >>)},
        xd \in {Omitted, Given(NONE), Given(<< t.subdir >>), Given(<< <<"a", ".", "t", "x", "t">> >>)},
        st \in BOOLEAN} :
        t \in {Tree1, Tree2}}

\* .gitignore files
GitScenarios ==
    {Scenario(GitEntries \cup {File(<<"/", "w", "/", "r", "/", ".", "g", "i", "t", "i", "g", "n", "o", "r", "e">>, text)}, pl.cwd,
              [Argv0 EXCEPT !.repo_path = pl.repo_path, !.use_gitignore = g],
              FALSE, {}) :
        text \in GitignoreTexts, pl \in Places, g \in BOOLEAN}

\* --include-dir naming a directory below the root
IncludeDirs(place) ==
    IF place.cwd = ROOT
    THEN {<<"s", "u", "b">>, <<"x">>, <<"x", "/", "s", "u", "b">>, <<"/", "w", "/", "r", "/", "x", "/", "s", "u", "b">>, <<"s", "u", "b", "2">>}
    ELSE {<<"r", "/", "s", "u", "b">>, <<"r", "/", "x">>, <<"r", "/", "x", "/", "s", "u", "b">>}

IncludeScenarios ==
    UNION {
        {Scenario(Tree3.entries, pl.cwd,
                  [Argv0 EXCEPT !.repo_path = pl.repo_path,
                                !.include_dir = Given(inc)],
                  FALSE, {}) :
            inc \in IncludeDirs(pl)} :
        pl \in Places}

\* A repository root that does not exist or is a file
BadRootScenarios ==
    {Scenario(Tree1.entries, W,
              [Argv0 EXCEPT !.repo_path = Given(rp), !.output_file = out,
                            !.use_gitignore = g],
              pre, {}) :
        rp \in {<<"n", "o", "p", "e">>, <<"r", "/", "a", ".", "t", "x", "t">>}, out \in {Omitted, Given(<<"r", "/", "z", "z", ".", "t", "x", "t">>)},
        pre \in BOOLEAN, g \in BOOLEAN}

\* The number of files of one file system whose open() or read fails
MaxFailing == 1

Failures == {"open", "read"}

FailSets(entries) ==
    LET files == {x[1] : x \in {y \in entries : y[2].kind = "file"}}
    IN  {F \in SUBSET (files \X Failures) :
            /\ Cardinality(F) <= MaxFailing
            /\ \A u \in F, v \in F : u[1] = v[1] => u = v}

\* Files that cannot be opened or read
FailureScenarios ==
    {Scenario(Tree1.entries, ROOT, [Argv0 EXCEPT !.ignore_types = ty], FALSE, F) :
        ty \in {Omitted, Given(NONE)}, F \in FailSets(Tree1.entries)}

Scenarios ==
    OutputScenarios \cup FilterScenarios \cup GitScenarios \cup IncludeScenarios
    \cup BadRootScenarios \cup FailureScenarios

\* The file system of a scenario before the first run: the tree, config.json
\* in the working directory, the failing files marked, and the output file
\* if it exists already.  (Stated with cwd, which Init has set.)
InitialFs(sc) ==
    LET out   == OrDefault(sc.argv.output_file, ConfigJson.default_output_file)
        pairs == BaseEntries \cup sc.entries
                 \cup {File(sc.cwd \o <<SEP>> \o ConfigPath, ConfigJsonText)}
        old   == {File(o, <<"o", "l", "d", "\n">>) :
                     o \in {a \in {abspath(out)} : sc.pre /\ \A x \in pairs : x[1] # a}}
        f     == MkFs(pairs \cup old)
    IN  [q \in DOMAIN f |->
            IF \E u \in sc.fails : u[1] = q
            THEN [f[q] EXCEPT !.fail = (CHOOSE u \in sc.fails : u[1] = q)[2]]
            ELSE f[q]]

Init ==
    \E sc \in Scenarios :
        /\ cwd = sc.cwd
        /\ argv = sc.argv
        /\ fs = InitialFs(sc)
        /\ fs0 = fs
        /\ config = NoConfig
        /\ args = NoArgs
        /\ gitignore_patterns = <<>>
        /\ pc = "import"
        /\ stack = <<>>
        /\ doc = <<>>
        /\ stdout = <<>>
        /\ treeLog = <<>>
        /\ dumpLog = <<>>
        /\ run = 1
        /\ prevRun = [pc |-> "none", doc |-> <<>>, stdout |-> <<>>,
                      config |-> NoConfig, gitignore_patterns |-> <<>>]

Spec == Init /\ [][Next]_vars

(***************************************************************************)
(* What the properties below speak of                                      *)
(***************************************************************************)

\* The run went through both traversals and closed the output file
Completed == pc = "done" /\ stdout = <<>>

\* The files that got a line in the tree section, and those that got a
\* [File Begins]/[File Ends] pair, by absolute path
TreeFiles == {abspath(treeLog[i].path) : i \in {j \in 1..Len(treeLog) : ~isdir(treeLog[j].path)}}
DumpFiles == {abspath(dumpLog[i].path) : i \in 1..Len(dumpLog)}

\* The paths of a sequence that name no directory, made absolute
RECURSIVE FilesIn(_)
FilesIn(paths) ==
    IF paths = <<>> THEN <<>>
    ELSE (IF isdir(paths[1]) THEN <<>> ELSE <<abspath(paths[1])>>)
         \o FilesIn(Tail(paths))

PathsOf(log) == [i \in 1..Len(log) |-> log[i].path]

\* Entry q (an absolute path) lies below directory d, segment by segment
Below(q, d) ==
    LET qs == AbsSegs(q)
        ds == AbsSegs(d)
    IN  Len(ds) < Len(qs) /\ SubSeq(qs, 1, Len(ds)) = ds

\* The entries of the file system below the repository root
UnderRoot == {q \in DOMAIN fs : Below(q, args.repo_path)}

\* Entry q below the root and the directories between the root and q, each
\* spelled as the traversals spell it: joined on to repo_path
Chain(q) ==
    LET rel == SubSeq(AbsSegs(q), Len(AbsSegs(args.repo_path)) + 1, Len(AbsSegs(q)))
    IN  {PathJoin(args.repo_path, Join(SubSeq(rel, 1, k), SEP)) : k \in 1..Len(rel)}

Spelled(q) == PathJoin(args.repo_path, relpath(q, args.repo_path))

\* Under the filter options a, neither q nor a directory above it is ignored
Shown(q, a) ==
    \A p \in Chain(q) : ~should_ignore(p, a, a.output_file, gitignore_patterns)

\* Depth first, a directory's entries right after its own line, in ascending
\* order of name: the entries no rule ignores
RECURSIVE PreOrder(_)
RECURSIVE PreOrderOf(_, _)
PreOrderOf(dir_path, names) ==
    IF names = <<>> THEN <<>>
    ELSE LET item_path == PathJoin(dir_path, names[1])
         IN  <<item_path>>
             \o (IF isdir(item_path) THEN PreOrder(item_path) ELSE <<>>)
             \o PreOrderOf(dir_path, Tail(names))
PreOrder(dir_path) ==
    PreOrderOf(dir_path,
               Sorted({n \in listdir(dir_path) :
                          ~should_ignore(PathJoin(dir_path, n), args,
                                         args.output_file, gitignore_patterns)}))

\* The names written for one directory come in strictly ascending order
Ascending(log) ==
    \A i \in 1..Len(log), j \in 1..Len(log) :
        (i < j /\ dirname(abspath(log[i].path)) = dirname(abspath(log[j].path)))
        => StrLess(basename(log[i].path), basename(log[j].path))

(***************************************************************************)
(* C1                                                                      *)
(***************************************************************************)

\* C1: when a run has completed, the files with a line in the tree section
\* are exactly the files with a [File Begins]/[File Ends] pair in the content
\* section.
C1_SameFileSet == Completed => TreeFiles = DumpFiles

\* A completed run that listed and dumped files and skipped others
C1_Witness ==
    /\ Completed
    /\ Cardinality(DumpFiles) >= 2
    /\ TreeFiles = DumpFiles
    /\ \E q \in UnderRoot : fs[q].kind = "file" /\ q \notin TreeFiles

(***************************************************************************)
(* C2                                                                      *)
(***************************************************************************)

\* The segments of pattern are the first segments of the path
SegmentPrefix(path, pattern) ==
    LET ps == Split(path, SEP)
        ts == Split(pattern, SEP)
    IN  Len(ts) <= Len(ps) /\ SubSeq(ps, 1, Len(ts)) = ts

EarlierRule(item, a) ==
    \/ IsOutputFile(item, a.output_file)
    \/ IsExcludedDir(item, a)
    \/ OutsideIncludeDir(item, a)
    \/ IsIgnoredFile(item, a)
    \/ IsSettings(item, a)

\* C2: once the patterns are loaded, a path no earlier rule ignores is
\* ignored exactly when --use-gitignore is set and the segments of its
\* root-relative form begin with all the segments of some loaded pattern.
C2_SegmentPrefixMatch ==
    pc = "check_root" =>
        \A q \in UnderRoot :
            ~EarlierRule(Spelled(q), args) =>
                (should_ignore(Spelled(q), args, args.output_file, gitignore_patterns)
                 <=> /\ args.use_gitignore
                     /\ \E i \in 1..Len(gitignore_patterns) :
                            SegmentPrefix(relpath(Spelled(q), args.repo_path),
                                          gitignore_patterns[i]))

(***************************************************************************)
(* C3                                                                      *)
(***************************************************************************)

\* The files --include-dir is meant to leave: those below the include
\* directory that the other rules do not ignore
IncludedFiles ==
    {q \in UnderRoot :
        /\ fs[q].kind = "file"
        /\ Below(q, args.include_dir)
        /\ Shown(q, [args EXCEPT !.include_dir = <<>>])}

\* C3: with an include directory anywhere below the root, both sections hold
\* every file below it that no other rule ignores, and no file outside it.
C3_IncludeDirSubtree ==
    (Completed /\ args.include_dir # <<>> /\ isdir(args.include_dir)
     /\ Below(abspath(args.include_dir), args.repo_path))
    => (TreeFiles = IncludedFiles /\ DumpFiles = IncludedFiles)

(***************************************************************************)
(* C4                                                                      *)
(***************************************************************************)

\* C4: no path that names the output file gets past should_ignore, and the
\* output file has neither a line in the tree section nor a [File Begins]
\* marker, wherever it lies.
C4_OutputFileExcluded ==
    /\ pc \in {"tree", "dump", "done"} =>
           \A q \in UnderRoot :
               abspath(q) = abspath(args.output_file)
               => should_ignore(Spelled(q), args, args.output_file, gitignore_patterns)
    /\ \A i \in 1..Len(treeLog) :
           abspath(treeLog[i].path) # abspath(args.output_file)
    /\ \A i \in 1..Len(dumpLog) :
           abspath(dumpLog[i].path) # abspath(args.output_file)

\* A completed run whose output file lies in a directory the run walked,
\* beside files that were listed and dumped
C4_Witness ==
    /\ Completed
    /\ abspath(args.output_file) \in UnderRoot
    /\ \E i \in 1..Len(dumpLog) :
           dirname(abspath(dumpLog[i].path)) = dirname(abspath(args.output_file))
    /\ abspath(args.output_file) \notin TreeFiles \cup DumpFiles

(***************************************************************************)
(* C5                                                                      *)
(***************************************************************************)

\* The lines of the tree section, from the items write_tree wrote
RECURSIVE TreeSection(_)
TreeSection(log) ==
    IF log = <<>> THEN <<>>
    ELSE log[1].prefix \o log[1].new_prefix \o basename(log[1].path) \o <<NL>>
         \o TreeSection(Tail(log))

\* What the content section holds for one dumped file: the markers around
\* the file's lines, or around the error description when the file fails
Block(d) ==
    LET f      == fs[abspath(d.path)]
        indent == Repeat(<<"  ">>, d.depth)
        error  == indent \o <<"Error reading file:", " ">> \o ErrorText(d.path) \o <<NL>>
        body   == CASE f.fail = "none" -> IndentLines(Lines(f.content), indent)
                    [] f.fail = "open" -> error
                    [] f.fail = "read" -> indent \o Lines(f.content)[1] \o error
    IN  indent \o <<"[File Begins]", " ">> \o d.relative_path \o <<NL>>
        \o body
        \o <<NL>> \o indent \o <<"[File Ends]", " ">> \o d.relative_path \o <<NL, NL>>

RECURSIVE ContentSection(_)
ContentSection(log) ==
    IF log = <<>> THEN <<>>
    ELSE Block(log[1]) \o ContentSection(Tail(log))

\* C5: a file that cannot be opened or read still gets its begin marker, the
\* error description at its indentation and its end marker; the files the
\* dump reaches are those it reaches when nothing fails, each written as if
\* nothing had failed before it, and the closing marker is written.
C5_ReadFailureIsInline ==
    Completed =>
        /\ FilesIn(PathsOf(dumpLog)) = FilesIn(PreOrder(args.repo_path))
        /\ \A i \in 1..Len(dumpLog) :
               /\ dumpLog[i].relative_path = relpath(dumpLog[i].path, args.repo_path)
               /\ dumpLog[i].depth = Len(Split(dumpLog[i].relative_path, SEP)) - 1
        /\ doc = HeaderText
                 \o basename(args.repo_path) \o <<SEP, NL>>
                 \o TreeSection(treeLog)
                 \o TreeEndText
                 \o ContentSection(dumpLog)
                 \o ContentEndText

\* A completed run that dumped a failing file and another file after it
C5_Witness ==
    /\ Completed
    /\ \E i \in 1..Len(dumpLog), j \in 1..Len(dumpLog) :
           /\ i < j
           /\ fs[abspath(dumpLog[i].path)].fail # "none"
           /\ fs[abspath(dumpLog[j].path)].fail = "none"

(***************************************************************************)
(* C6                                                                      *)
(***************************************************************************)

ArgsParsed == pc \notin {"import", "parse_args"}

\* C6: when the repository root is not a directory, the run prints the error
\* and ends; nothing is opened, walked or written, and the file system stays
\* as it was, the file at the output path included.
C6_BadRootWritesNothing ==
    (ArgsParsed /\ ~isdir(args.repo_path)) =>
        /\ fs = fs0
        /\ doc = <<>> /\ stack = <<>> /\ treeLog = <<>> /\ dumpLog = <<>>
        /\ pc \in {"normalize", "load_gitignore", "check_root", "done"}
        /\ pc = "done" => stdout = RootErrorText(args.repo_path)

\* A run on a repository root that is no directory has ended, and a file
\* exists at the output path
C6_Witness ==
    /\ pc = "done"
    /\ ~isdir(args.repo_path)
    /\ stdout # <<>>
    /\ isfile(args.output_file)

(***************************************************************************)
(* C7                                                                      *)
(***************************************************************************)

PNG == <<".", "p", "n", "g">>

PngFiles == {q \in UnderRoot : fs[q].kind = "file" /\ file_ext_of(q) = PNG}

\* C7: a run whose list of ignored extensions holds .png shows no .png file;
\* a run given --ignore-types with a list without .png shows, in both
\* sections, every .png file that the run would show for that list.
C7_IgnoreTypesRoundTrip ==
    Completed =>
        /\ PNG \in Range(args.ignore_types)
           => PngFiles \cap (TreeFiles \cup DumpFiles) = {}
        /\ (argv.ignore_types.given /\ argv.ignore_types.value # NONE
            /\ PNG \notin Range(argv.ignore_types.value))
           => \A q \in PngFiles :
                  Shown(q, [args EXCEPT !.ignore_types = argv.ignore_types.value])
                  => q \in TreeFiles \cap DumpFiles

(***************************************************************************)
(* C8                                                                      *)
(***************************************************************************)

\* A run after a completed run has ended
SecondRunEnded ==
    /\ run > 1
    /\ pc \in {"done", "crashed"}
    /\ prevRun.pc = "done" /\ prevRun.stdout = <<>>

\* The run read what the run before it read: the command line is the same
\* by construction, so are config.json and the patterns of .gitignore unless
\* the output file of the run before is one of these two files
SameInputs ==
    /\ config = prevRun.config
    /\ gitignore_patterns = prevRun.gitignore_patterns

\* C8 as stated: a run after a completed run, with the same command line and
\* a file system changed by the writing of the output file alone, completes
\* and writes the same document.  It fails when the output file is a file the
\* program reads its settings from: the .gitignore of the root (the second
\* run takes the lines of the document as patterns) or config.json (the
\* second run fails to load it)
C8_IdempotentAsStated ==
    SecondRunEnded => (pc = "done" /\ stdout = <<>> /\ doc = prevRun.doc)

\* C8: a run after a completed run, with the same command line, reading the
\* same configuration and the same patterns, and a file system changed by
\* the writing of the output file alone, completes and writes the same
\* document, also when the output file lies in the tree.
C8_Idempotent ==
    (SecondRunEnded /\ SameInputs)
    => (pc = "done" /\ stdout = <<>> /\ doc = prevRun.doc)

\* A second run has written the document of the first; the output file lies
\* in the root, did not exist before the first run, and is the last name of
\* the root's listing, so that the last line of the root is drawn with a tee
C8_Witness ==
    /\ SecondRunEnded /\ SameInputs
    /\ pc = "done" /\ doc = prevRun.doc
    /\ abspath(args.output_file) \notin DOMAIN fs0
    /\ dirname(abspath(args.output_file)) = abspath(args.repo_path)
    /\ \A n \in listdir(args.repo_path) :
           n = basename(args.output_file) \/ StrLess(n, basename(args.output_file))
    /\ treeLog # <<>>
    /\ \A i \in 1..Len(treeLog) :
           treeLog[i].dir_path = args.repo_path => treeLog[i].new_prefix = TEE

(***************************************************************************)
(* C9                                                                      *)
(***************************************************************************)

\* C9: both passes write the entries of a directory in strictly ascending
\* order of name, a directory's subtree before its next sibling, so the files
\* of the content section come in the order of the file lines of the tree
\* section.
C9_SameOrder ==
    Completed =>
        /\ PathsOf(treeLog) = PreOrder(args.repo_path)
        /\ Ascending(treeLog)
        /\ Ascending(dumpLog)
        /\ FilesIn(PathsOf(dumpLog)) = FilesIn(PathsOf(treeLog))

\* A completed run that wrote files of two directories, the files of the
\* subdirectory between files of the root
C9_Witness ==
    /\ Completed
    /\ \E i \in 1..Len(dumpLog), j \in 1..Len(dumpLog), k \in 1..Len(dumpLog) :
           /\ i < j /\ j < k
           /\ dirname(abspath(dumpLog[i].path)) = abspath(args.repo_path)
           /\ dirname(abspath(dumpLog[j].path)) # abspath(args.repo_path)
           /\ dirname(abspath(dumpLog[k].path)) = abspath(args.repo_path)
    /\ FilesIn(PathsOf(dumpLog)) = FilesIn(PathsOf(treeLog))

(***************************************************************************)
(* C10                                                                     *)
(***************************************************************************)

\* The name is the last of the sorted listing of its directory, ignored
\* entries counted
LastOfListing(item_path) ==
    \A n \in {basename(q) : q \in {x \in DOMAIN fs :
                                      x # <<SEP>>
                                      /\ dirname(x) = dirname(abspath(item_path))}} :
        n = basename(item_path) \/ StrLess(n, basename(item_path))

\* C10: an ignored entry has no line; a line has the corner exactly when its
\* entry is the last of the sorted, unfiltered listing of its directory, the
\* tee otherwise; the lines below a directory carry its prefix extended by
\* blanks under a corner and by a bar under a tee.
C10_GlyphByUnfilteredIndex ==
    Completed =>
        \A i \in 1..Len(treeLog) :
            LET e == treeLog[i]
            IN  /\ ~should_ignore(e.path, args, args.output_file, gitignore_patterns)
                /\ e.new_prefix = (IF LastOfListing(e.path) THEN CORNER ELSE TEE)
                /\ e.dir_path = args.repo_path => e.prefix = <<>>
                /\ \A j \in 1..Len(treeLog) :
                       treeLog[j].dir_path = e.path
                       => treeLog[j].prefix =
                              e.prefix \o (IF e.new_prefix = CORNER THEN BLANKS ELSE BAR)

\* A completed run in which a directory's last entry is ignored, its last
\* visible entry is a directory drawn with a tee, and a line below it
\* carries the bar
C10_Witness ==
    /\ Completed
    /\ \E i \in 1..Len(treeLog), j \in 1..Len(treeLog) :
           /\ treeLog[i].new_prefix = TEE
           /\ \A k \in 1..Len(treeLog) :
                  (k # i /\ treeLog[k].dir_path = treeLog[i].dir_path)
                  => StrLess(basename(treeLog[k].path), basename(treeLog[i].path))
           /\ treeLog[j].dir_path = treeLog[i].path
           /\ treeLog[j].prefix = treeLog[i].prefix \o BAR

====
